---- MODULE Spec2Model ----
(***************************************************************************)
(* The Axiograph plugin processes: the LLM plugin (protocols v2/v3) with   *)
(* its dispatcher, query builder and tool-loop step, and the world-model   *)
(* plugins with the proposal canonicalizer.                                *)
(*                                                                         *)
(* A plugin process reads one JSON request, writes JSON objects to stdout  *)
(* and exits with a status.  JSON (Python) values are tagged records; a    *)
(* Python dict is an insertion-ordered sequence of <<key, value>> pairs.   *)
(* A function returns a JSON value, or Raised(exc) where Python raises.    *)
(***************************************************************************)
EXTENDS Integers, Sequences, FiniteSets, TLC

VARIABLES
    plugin,      \* the entry point that ran: "none" before any invocation
    request,     \* the JSON value read from stdin
    stdout,      \* the sequence of JSON values written to stdout
    rc,          \* the process exit status, NoExit before any invocation
    question,    \* host side of the tool loop: the question of the ask
    transcript,  \* host side: the transcript replayed on each call
    actions,     \* host side: the engine's actions of this ask, in order
    phase,       \* host side: "idle", "call", "tool", "done", "failed"
    norm_call    \* the last call of _normalize_proposals: arguments and result

vars == <<plugin, request, stdout, rc, question, transcript, actions, phase, norm_call>>

(***************************************************************************)
(* Bounds of the model.                                                    *)
(***************************************************************************)
\* Questions are all token sequences of at most this many tokens.
MaxTokens == 2
\* The host calls the engine at most this many times in one ask.
MaxTurns == 3
\* The clock takes the values 1..MaxClock (unix seconds).
MaxClock == 2
\* The back end's proposals list has at most this many records.
MaxProposals == 2

(***************************************************************************)
(* JSON / Python values.                                                   *)
(***************************************************************************)
JNull == [ty |-> "null"]
JBool(b) == [ty |-> "bool", b |-> b]
JInt(n) == [ty |-> "int", n |-> n]
\* A float, held in hundredths: JFloat(70) is 0.7.
JFloat(c) == [ty |-> "float", c |-> c]
JStr(s) == [ty |-> "str", s |-> s]
\* A string held as its items: tokens and whitespace runs " ", in order.
JText(w) == [ty |-> "str", w |-> w]
JList(items) == [ty |-> "list", items |-> items]
JObj(kv) == [ty |-> "map", kv |-> kv]
EmptyObj == JObj(<<>>)

\* The value of a key that a JSON object does not have.
Absent == [ty |-> "absent"]

Raised(exc) == [ty |-> "raise", exc |-> exc]
IsRaise(v) == v.ty = "raise"

IsText(v) == v.ty = "str" /\ "w" \in DOMAIN v
isdict(v) == v.ty = "map"
islist(v) == v.ty = "list"

\* Python truthiness: bool(v).
Truthy(v) ==
    CASE v.ty = "null" -> FALSE
      [] v.ty = "bool" -> v.b
      [] v.ty = "int" -> v.n # 0
      [] v.ty = "float" -> v.c # 0
      [] v.ty = "str" -> IF IsText(v) THEN v.w # <<>> ELSE v.s # ""
      [] v.ty = "list" -> v.items # <<>>
      [] v.ty = "map" -> v.kv # <<>>

\* a or b
Or(a, b) == IF Truthy(a) THEN a ELSE b

\* key in d, for a dict d
HasKey(d, k) == \E i \in 1..Len(d.kv) : d.kv[i][1] = k

\* d.get(k, default), for a dict d
GetD(d, k, default) ==
    IF HasKey(d, k)
    THEN d.kv[CHOOSE i \in 1..Len(d.kv) : d.kv[i][1] = k][2]
    ELSE default

\* d.get(k), for a dict d
Get(d, k) == GetD(d, k, JNull)

\* v.get(k) for any value v: only a dict has .get
DotGet(v, k) == IF isdict(v) THEN Get(v, k) ELSE Raised("AttributeError")

\* str(v), as an f-string renders a value (scalars; containers when empty)
PyStr(v) ==
    CASE v.ty = "null" -> "None"
      [] v.ty = "bool" -> IF v.b THEN "True" ELSE "False"
      [] v.ty = "int" -> ToString(v.n)
      [] v.ty = "str" -> IF IsText(v) THEN "<text>" ELSE v.s
      [] v.ty = "list" -> "[]"
      [] v.ty = "map" -> "{}"
      [] OTHER -> "<float>"

\* repr(v), as {v!r} renders a value: a str is quoted
PyRepr(v) ==
    IF v.ty = "str" /\ ~IsText(v) THEN "'" \o v.s \o "'" ELSE PyStr(v)

(***************************************************************************)
(* Strings of a question.  A question is held as its items (JText); the    *)
(* character-level facts Python computes on a token are tables over the    *)
(* vocabulary.  "<U+00B2>" is the one-character token SUPERSCRIPT TWO.     *)
(***************************************************************************)
Whitespace == " "

Vocab ==
    {"from", "From", "follow", "find", "named", "3", "<U+00B2>",
     "rel_0", "rel_2", "Node", "Thing", "b"}

\* t.lower()
Lower(t) ==
    CASE t = "From" -> "from"
      [] t = "Node" -> "node"
      [] t = "Thing" -> "thing"
      [] t = "Machining" -> "machining"
      [] t = "Entity" -> "entity"
      [] t = "ENTITY" -> "entity"
      [] t = "Relation" -> "relation"
      [] t = "None" -> "none"
      [] OTHER -> t

\* t.isdigit(): true of every Unicode digit, decimal or not
isdigit(t) == t \in {"0", "3", "<U+00B2>"}

\* t.startswith("rel_")
startswith_rel(t) == t \in {"rel_0", "rel_1", "rel_2"}

\* int(t): only decimal digits convert
int(t) ==
    CASE t = "0" -> JInt(0)
      [] t = "3" -> JInt(3)
      [] OTHER -> Raised("ValueError")

RECURSIVE StripLeft(_)
StripLeft(w) ==
    IF w # <<>> /\ Head(w) = Whitespace THEN StripLeft(Tail(w)) ELSE w

RECURSIVE StripRight(_)
StripRight(w) ==
    IF w # <<>> /\ w[Len(w)] = Whitespace
    THEN StripRight(SubSeq(w, 1, Len(w) - 1))
    ELSE w

IsToken(x) == x # Whitespace

\* v.strip(): only a str has .strip
strip(v) ==
    IF v.ty # "str" THEN Raised("AttributeError")
    ELSE IF IsText(v) THEN JText(StripRight(StripLeft(v.w)))
    ELSE v

\* s.split() of a str s: the tokens between whitespace runs
split(s) ==
    IF IsText(s) THEN SelectSeq(s.w, IsToken)
    ELSE IF s.s = "" THEN <<>> ELSE <<s.s>>

\* x in seq
Contains(seq, x) == \E i \in 1..Len(seq) : seq[i] = x

\* seq.index(x), 1-based, for x in seq
IndexOf(seq, x) ==
    CHOOSE i \in 1..Len(seq) : seq[i] = x /\ \A j \in 1..(i - 1) : seq[j] # x

\* sep.join(seq)
RECURSIVE Join(_, _)
Join(sep, seq) ==
    IF seq = <<>> THEN ""
    ELSE IF Len(seq) = 1 THEN seq[1]
    ELSE seq[1] \o sep \o Join(sep, Tail(seq))

\* A list of generic types that counts Node among them.
GenericTypes_with_node == {"thing", "things", "entity", "entities", "node"}

GenericTypes == {"thing", "things", "entity", "entities"}

QueryIR(select, where, limit) ==
    JObj(<< <<"version", JInt(1)>>,
            <<"select", JList(<<JStr(select)>>)>>,
            <<"where", JList(where)>>,
            <<"limit", JInt(limit)>> >>)

\* An edge atom that ends in a variable of its own.
EdgeAtom_unbound_right(left, path, right) ==
    JObj(<< <<"kind", JStr("edge")>>, <<"left", left>>,
            <<"path", JStr(path)>>, <<"right", JStr("?z")>> >>)

EdgeAtom(left, path, right) ==
    JObj(<< <<"kind", JStr("edge")>>, <<"left", left>>,
            <<"path", JStr(path)>>, <<"right", JStr(right)>> >>)

TypeAtom(term, type) ==
    JObj(<< <<"kind", JStr("type")>>, <<"term", JStr(term)>>,
            <<"type", JStr(type)>> >>)

AttrEqAtom(term, key, value) ==
    JObj(<< <<"kind", JStr("attr_eq")>>, <<"term", JStr(term)>>,
            <<"key", JStr(key)>>, <<"value", JStr(value)>> >>)

QueryPayload(ir, axql) ==
    JObj(<< <<"query_ir_v1", ir>>, <<"axql", JStr(axql)>> >>)

\* A builder that knows the fallback query only.
build_query_payload_fallback_only(q) ==
    QueryPayload(QueryIR("?x", <<TypeAtom("?x", "Node")>>, 20),
                 "select ?x where ?x is Node limit 20")

\* build_query_payload(question): the payload, or Raised where int() raises
build_query_payload(q) ==
    LET tokens == split(q)
        lower == [i \in 1..Len(tokens) |-> Lower(tokens[i])]
        fromHead == Len(lower) >= 1 /\ lower[1] = "from"
    IN
    IF Contains(lower, "follow") \/ (fromHead /\ Len(tokens) >= 2) THEN
        LET start == IF fromHead /\ Len(tokens) >= 2 /\ isdigit(tokens[2])
                     THEN tokens[2] ELSE "0"
            rels == SelectSeq(tokens, startswith_rel)
            path == IF rels # <<>> THEN Join("/", rels) ELSE "rel_0/rel_1"
            axql == "select ?y where " \o start \o " -" \o path \o "-> ?y limit 20"
            left == int(start)
        IN IF IsRaise(left) THEN left
           ELSE QueryPayload(QueryIR("?y", <<EdgeAtom(left, path, "?y")>>, 20), axql)
    ELSE IF Len(lower) >= 1 /\ lower[1] = "find" /\ Len(tokens) >= 2 THEN
        LET type_name == tokens[2]
            hasName == Contains(lower, "named") /\ IndexOf(lower, "named") < Len(tokens)
            name == tokens[IndexOf(lower, "named") + 1]
            typed == Lower(type_name) \notin GenericTypes
            atoms == (IF typed THEN <<"?x is " \o type_name>> ELSE <<>>)
                     \o (IF hasName THEN <<"?x.name = \"" \o name \o "\"">> ELSE <<>>)
            ir_atoms == (IF typed THEN <<TypeAtom("?x", type_name)>> ELSE <<>>)
                        \o (IF hasName THEN <<AttrEqAtom("?x", "name", name)>> ELSE <<>>)
            where == IF atoms # <<>> THEN Join(", ", atoms) ELSE "?x is Node"
            axql == "select ?x where " \o where \o " limit 20"
        IN QueryPayload(
               QueryIR("?x", IF ir_atoms = <<>> THEN <<TypeAtom("?x", "Node")>> ELSE ir_atoms, 20),
               axql)
    ELSE
        QueryPayload(QueryIR("?x", <<TypeAtom("?x", "Node")>>, 20),
                     "select ?x where ?x is Node limit 20")

(***************************************************************************)
(* The LLM plugin: axiograph_llm_plugin_mock.py.  A run of the process is  *)
(* an outcome: what it wrote to stdout, its exit status, and the exception *)
(* that ended it ("none" when main returned).                              *)
(***************************************************************************)
NoExit == -1

\* What stdin holds when it is not JSON.
NotJson == [ty |-> "garbage"]

Outcome(out, status, exc) == [stdout |-> out, rc |-> status, exc |-> exc]

\* An exception nobody catches: a traceback on stderr, exit status 1.
Uncaught(exc) == Outcome(<<>>, 1, exc)

respond_ok(payload) == Outcome(<<payload>>, 0, "none")

respond_error(message) ==
    Outcome(<<JObj(<< <<"error", JStr(message)>> >>)>>, 0, "none")

\* respond_to_query(question)
respond_to_query(q) ==
    LET tokens == split(q)
        lower == [i \in 1..Len(tokens) |-> Lower(tokens[i])]
        fromHead == Len(lower) >= 1 /\ lower[1] = "from"
    IN
    IF Contains(lower, "follow") \/ (fromHead /\ Len(tokens) >= 2) THEN
        LET start == IF fromHead /\ Len(tokens) >= 2 /\ isdigit(tokens[2])
                     THEN tokens[2] ELSE "0"
            rels == SelectSeq(tokens, startswith_rel)
            path == IF rels # <<>> THEN Join("/", rels) ELSE "rel_0/rel_1"
            axql == "select ?y where " \o start \o " -" \o path \o "-> ?y limit 20"
            left == int(start)
        IN IF IsRaise(left) THEN Uncaught(left.exc)
           ELSE respond_ok(
                    QueryPayload(QueryIR("?y", <<EdgeAtom(left, path, "?y")>>, 20), axql))
    ELSE IF Len(lower) >= 1 /\ lower[1] = "find" /\ Len(tokens) >= 2 THEN
        LET type_name == tokens[2]
            hasName == Contains(lower, "named") /\ IndexOf(lower, "named") < Len(tokens)
            name == tokens[IndexOf(lower, "named") + 1]
            typed == Lower(type_name) \notin GenericTypes
            atoms == (IF typed THEN <<"?x is " \o type_name>> ELSE <<>>)
                     \o (IF hasName THEN <<"?x.name = \"" \o name \o "\"">> ELSE <<>>)
            ir_atoms == (IF typed THEN <<TypeAtom("?x", type_name)>> ELSE <<>>)
                        \o (IF hasName THEN <<AttrEqAtom("?x", "name", name)>> ELSE <<>>)
            where == IF atoms # <<>> THEN Join(", ", atoms) ELSE "?x is Node"
            axql == "select ?x where " \o where \o " limit 20"
        IN respond_ok(QueryPayload(
               QueryIR("?x", IF ir_atoms = <<>> THEN <<TypeAtom("?x", "Node")>> ELSE ir_atoms, 20),
               axql))
    ELSE
        respond_ok(QueryPayload(QueryIR("?x", <<TypeAtom("?x", "Node")>>, 20),
                                "select ?x where ?x is Node limit 20"))

\* len(v): the tag "raise" where v has no len()
len(v) ==
    CASE v.ty = "list" -> JInt(Len(v.items))
      [] v.ty = "map" -> JInt(Len(v.kv))
      [] v.ty = "str" -> JInt(IF IsText(v) THEN Len(v.w) ELSE Len(v.s))
      [] OTHER -> Raised("TypeError")

\* The one character at an end of a str: the str itself when it has one character.
CharOf(v) == IF ~IsText(v) /\ Len(v.s) = 1 THEN v ELSE JStr("<char>")

\* v[0] of a truthy v: a dict read from JSON has no key 0
first_of(v) ==
    CASE v.ty = "list" -> v.items[1]
      [] v.ty = "str" -> CharOf(v)
      [] v.ty = "map" -> Raised("KeyError")
      [] OTHER -> Raised("TypeError")

\* v[-1] of a truthy v
last_of(v) ==
    CASE v.ty = "list" -> v.items[Len(v.items)]
      [] v.ty = "str" -> CharOf(v)
      [] v.ty = "map" -> Raised("KeyError")
      [] OTHER -> Raised("TypeError")

\* One binding of the first row, as the f-string renders it.
BindingPart(var, v) ==
    LET name == Get(v, "name")
        et == Get(v, "entity_type")
    IN IF Truthy(name)
       THEN var \o "=" \o PyStr(name) \o " (" \o PyStr(et) \o ", id=" \o PyStr(Get(v, "id")) \o ")"
       ELSE var \o "=" \o PyStr(et) \o " (id=" \o PyStr(Get(v, "id")) \o ")"

\* The loop over first.items(): the parts, in the dict's order.
RECURSIVE BindingParts(_)
BindingParts(kv) ==
    IF kv = <<>> THEN <<>>
    ELSE LET var == kv[1][1]
             v == kv[1][2]
         IN (IF isdict(v) /\ HasKey(v, "id") THEN <<BindingPart(var, v)>> ELSE <<>>)
            \o BindingParts(Tail(kv))

FoundMsg(n) == "Found " \o ToString(n) \o " result rows."

WithParts(msg, parts) ==
    IF parts # <<>> THEN msg \o " First row: " \o Join(", ", parts) ELSE msg

\* respond_answer(task), for a dict task
respond_answer(task) ==
    LET results == Or(Get(task, "results"), EmptyObj) IN
    IF ~isdict(results) THEN Uncaught("AttributeError")
    ELSE
    LET rows == Or(Get(results, "rows"), JList(<<>>))
        n == len(rows)
    IN
    IF IsRaise(n) THEN Uncaught(n.exc)
    ELSE IF ~Truthy(rows) THEN respond_ok(JObj(<< <<"answer", JStr(FoundMsg(n.n))>> >>))
    ELSE
    LET first == first_of(rows) IN
    IF IsRaise(first) THEN Uncaught(first.exc)
    ELSE IF ~isdict(first) THEN Uncaught("AttributeError")
    ELSE respond_ok(JObj(<< <<"answer",
                              JStr(WithParts(FoundMsg(n.n), BindingParts(first.kv)))>> >>))

BackendNote == JStr("backend=mock_plugin (deterministic)")

FinalAnswer(answer, queries) ==
    JObj(<< <<"final_answer",
              JObj(<< <<"answer", JStr(answer)>>,
                      <<"citations", JList(<<>>)>>,
                      <<"queries", JList(queries)>>,
                      <<"notes", JList(<<BackendNote>>)>> >>)>> >>)

ToolCall(name, query_ir, limit) ==
    JObj(<< <<"tool_call",
              JObj(<< <<"name", JStr(name)>>,
                      <<"args", JObj(<< <<"query_ir_v1", query_ir>>,
                                        <<"limit", JInt(limit)>> >>)>> >>)>> >>)

\* The answer turn, lines 153-180, for a dict result
answer_turn(result) ==
    LET query_text == Or(Get(result, "query"), JStr(""))
        results == Or(Get(result, "results"), EmptyObj)
    IN
    IF ~isdict(results) THEN Uncaught("AttributeError")
    ELSE
    LET rows == Or(Get(results, "rows"), JList(<<>>))
        n == len(rows)
        queries == IF Truthy(query_text) THEN <<query_text>> ELSE <<>>
    IN
    IF IsRaise(n) THEN Uncaught(n.exc)
    ELSE IF ~Truthy(rows) THEN respond_ok(FinalAnswer(FoundMsg(n.n), queries))
    ELSE
    LET first == first_of(rows) IN
    IF IsRaise(first) THEN Uncaught(first.exc)
    ELSE IF ~isdict(first) THEN respond_ok(FinalAnswer(FoundMsg(n.n), queries))
    ELSE respond_ok(FinalAnswer(WithParts(FoundMsg(n.n), BindingParts(first.kv)), queries))

\* A tool loop that never reads the transcript: every turn is a first turn.
respond_tool_loop_step_no_transcript(task) ==
    LET q == strip(Or(Get(task, "question"), JStr(""))) IN
    IF IsRaise(q) THEN Uncaught(q.exc)
    ELSE LET q_payload == build_query_payload(q) IN
         IF IsRaise(q_payload) THEN Uncaught(q_payload.exc)
         ELSE respond_ok(ToolCall("axql_run", Get(q_payload, "query_ir_v1"), 25))

\* respond_tool_loop_step(task), for a dict task
respond_tool_loop_step(task) ==
    LET q == strip(Or(Get(task, "question"), JStr("")))
        trans == Or(Get(task, "transcript"), JList(<<>>))
    IN
    IF IsRaise(q) THEN Uncaught(q.exc)
    ELSE IF ~Truthy(trans) THEN
        LET q_payload == build_query_payload(q) IN
        IF IsRaise(q_payload) THEN Uncaught(q_payload.exc)
        ELSE respond_ok(ToolCall("axql_run", Get(q_payload, "query_ir_v1"), 25))
    ELSE
    LET last == last_of(trans) IN
    IF IsRaise(last) THEN Uncaught(last.exc)
    ELSE IF isdict(last) /\ Get(last, "tool") = JStr("axql_run")
            /\ isdict(Or(Get(last, "result"), EmptyObj))
    THEN answer_turn(Or(Get(last, "result"), EmptyObj))
    ELSE respond_ok(FinalAnswer("Done.", <<>>))

\* s.lower() of a str
lower_str(v) ==
    IF IsText(v) THEN JText([i \in 1..Len(v.w) |-> Lower(v.w[i])]) ELSE JStr(Lower(v.s))

\* v == "lit" for a str v and a literal of one token
StrEq(v, lit) == IF IsText(v) THEN v.w = <<lit>> ELSE v.s = lit

\* What "for p in v" visits: the tag "raise" where v is not iterable.
iterate(v) ==
    CASE v.ty = "list" -> v
      [] v.ty = "str" ->
            JList([i \in 1..(IF IsText(v) THEN Len(v.w) ELSE Len(v.s)) |-> JStr("<char>")])
      [] v.ty = "map" -> JList([i \in 1..Len(v.kv) |-> JStr(v.kv[i][1])])
      [] OTHER -> Raised("TypeError")

SchemaHintUpdate(pid) ==
    JObj(<< <<"proposal_id", pid>>,
            <<"schema_hint", JStr("machinist_learning")>>,
            <<"public_rationale",
              JStr("mock plugin: domain=machining -> machinist_learning")>> >>)

\* The loop of respond_augment_proposals over the proposals, lines 258-277.
RECURSIVE schema_hint_updates(_)
schema_hint_updates(ps) ==
    IF ps = <<>> THEN JList(<<>>)
    ELSE
    LET p == Head(ps) IN
    IF ~isdict(p) THEN schema_hint_updates(Tail(ps))
    ELSE
    LET pid == Or(Get(p, "proposal_id"), JStr(""))
        md == Or(Get(p, "metadata"), EmptyObj)
        meta_domain == IF isdict(md) THEN Get(md, "domain") ELSE JNull
        attrs == Or(Get(p, "attributes"), EmptyObj)
        attr_domain == IF isdict(attrs) THEN Get(attrs, "domain") ELSE JNull
        domain == strip(Or(meta_domain, Or(attr_domain, JStr(""))))
    IN
    IF IsRaise(domain) THEN domain
    ELSE
    LET rest == schema_hint_updates(Tail(ps)) IN
    IF IsRaise(rest) THEN rest
    ELSE IF StrEq(lower_str(domain), "machining") /\ Truthy(pid)
         THEN JList(<<SchemaHintUpdate(pid)>> \o rest.items)
         ELSE rest

AddedProposal ==
    JObj(<< <<"kind", JStr("Entity")>>,
            <<"proposal_id", JStr("concept::mock::0")>>,
            <<"confidence", JFloat(60)>>,
            <<"evidence", JList(<<>>)>>,
            <<"public_rationale", JStr("mock plugin: added a sample Concept entity")>>,
            <<"metadata", JObj(<< <<"derived_from", JStr("axiograph_llm_plugin_mock")>> >>)>>,
            <<"schema_hint", JNull>>,
            <<"entity_id", JStr("concept::mock::0")>>,
            <<"entity_type", JStr("Concept")>>,
            <<"name", JStr("MockConcept")>>,
            <<"attributes", JObj(<< <<"note", JStr("deterministic mock")>> >>)>>,
            <<"description", JStr("A placeholder concept added by the mock plugin.")>> >>)

\* respond_augment_proposals(task), for a dict task
respond_augment_proposals(task) ==
    LET proposals_file == Or(Get(task, "proposals"), EmptyObj) IN
    IF ~isdict(proposals_file) THEN Uncaught("AttributeError")
    ELSE
    LET proposals == iterate(Or(Get(proposals_file, "proposals"), JList(<<>>))) IN
    IF IsRaise(proposals) THEN Uncaught(proposals.exc)
    ELSE
    LET updates == schema_hint_updates(proposals.items) IN
    IF IsRaise(updates) THEN Uncaught(updates.exc)
    ELSE respond_ok(JObj(<<
             <<"schema_hint_updates", updates>>,
             <<"added_proposals", JList(<<AddedProposal>>)>>,
             <<"notes", JList(<<JStr("mock plugin: this is deterministic; replace with a real local model runner for semantic labeling")>>)>> >>))

LlmProtocols == {JStr("axiograph_llm_plugin_v2"), JStr("axiograph_llm_plugin_v3")}

\* A dispatcher whose error message renders the kind with str(), not repr().
main_str_kind(req) ==
    IF req = NotJson THEN Uncaught("JSONDecodeError")
    ELSE IF ~isdict(req) THEN Uncaught("AttributeError")
    ELSE IF Get(req, "protocol") \notin LlmProtocols THEN respond_error("unsupported protocol")
    ELSE
    LET task == Or(Get(req, "task"), EmptyObj) IN
    IF ~isdict(task) THEN Uncaught("AttributeError")
    ELSE
    LET kind == Get(task, "kind") IN
    IF kind = JStr("to_query") THEN
        LET q == strip(Or(Get(task, "question"), JStr(""))) IN
        IF IsRaise(q) THEN Uncaught(q.exc) ELSE respond_to_query(q)
    ELSE IF kind = JStr("answer") THEN respond_answer(task)
    ELSE IF kind = JStr("augment_proposals") THEN respond_augment_proposals(task)
    ELSE IF kind = JStr("tool_loop_step") THEN respond_tool_loop_step(task)
    ELSE respond_error("unknown task kind: " \o PyStr(kind))

\* main() of the LLM plugin, on what stdin holds
main(req) ==
    IF req = NotJson THEN Uncaught("JSONDecodeError")
    ELSE IF ~isdict(req) THEN Uncaught("AttributeError")
    ELSE IF Get(req, "protocol") \notin LlmProtocols THEN respond_error("unsupported protocol")
    ELSE
    LET task == Or(Get(req, "task"), EmptyObj) IN
    IF ~isdict(task) THEN Uncaught("AttributeError")
    ELSE
    LET kind == Get(task, "kind") IN
    IF kind = JStr("to_query") THEN
        LET q == strip(Or(Get(task, "question"), JStr(""))) IN
        IF IsRaise(q) THEN Uncaught(q.exc) ELSE respond_to_query(q)
    ELSE IF kind = JStr("answer") THEN respond_answer(task)
    ELSE IF kind = JStr("augment_proposals") THEN respond_augment_proposals(task)
    ELSE IF kind = JStr("tool_loop_step") THEN respond_tool_loop_step(task)
    ELSE respond_error("unknown task kind: " \o PyRepr(kind))

(***************************************************************************)
(* The proposal canonicalizer: _normalize_proposals of the world-model     *)
(* plugins.  A confidence is a float in hundredths.                        *)
(***************************************************************************)
\* 0.7, the confidence of a record that gives none.
DefaultConfidence == 70

\* float(v)
float(v) ==
    CASE v.ty = "float" -> v
      [] v.ty = "int" -> JFloat(100 * v.n)
      [] v.ty = "bool" -> JFloat(IF v.b THEN 100 ELSE 0)
      [] v.ty = "str" -> IF ~IsText(v) /\ v.s = "0.9" THEN JFloat(90) ELSE Raised("ValueError")
      [] OTHER -> Raised("TypeError")

\* A setdefault that writes the value even when the key is there.
setdefault_overwriting(d, k, v) ==
    IF HasKey(d, k)
    THEN JObj([i \in 1..Len(d.kv) |-> IF d.kv[i][1] = k THEN <<k, v>> ELSE d.kv[i]])
    ELSE JObj(Append(d.kv, <<k, v>>))

\* d.setdefault(k, v)
setdefault(d, k, v) == IF HasKey(d, k) THEN d ELSE JObj(Append(d.kv, <<k, v>>))

\* d[k] = v: a key already there keeps its place
setitem(d, k, v) ==
    IF HasKey(d, k)
    THEN JObj([i \in 1..Len(d.kv) |-> IF d.kv[i][1] = k THEN <<k, v>> ELSE d.kv[i]])
    ELSE JObj(Append(d.kv, <<k, v>>))

\* f"wm::{trace_id}::{idx}"
base_id(trace_id, idx) == "wm::" \o PyStr(trace_id) \o "::" \o ToString(idx)

\* str(kind).lower() == "entity"
is_entity(kind) == Lower(PyStr(kind)) = "entity"

ListOr(v, default) == IF islist(v) THEN v ELSE default
DictOr(v, default) == IF isdict(v) THEN v ELSE default

\* One pass of the loop of real.py's _normalize_proposals, lines 125-155,
\* on the dict p at position idx: the canonical record, or Raised.
fix_record_real(trace_id, idx, p) ==
    LET base == base_id(trace_id, idx)
        confidence == float(GetD(p, "confidence", JFloat(DefaultConfidence)))
        meta == << <<"proposal_id", Or(Get(p, "proposal_id"), JStr(base))>>,
                   <<"confidence", confidence>>,
                   <<"evidence", ListOr(Get(p, "evidence"), JList(<<>>))>>,
                   <<"public_rationale",
                     Or(Get(p, "public_rationale"), JStr("world model proposal"))>>,
                   <<"metadata", DictOr(Get(p, "metadata"), EmptyObj)>>,
                   <<"schema_hint", Get(p, "schema_hint")>> >>
    IN
    IF IsRaise(confidence) THEN confidence
    ELSE IF is_entity(Get(p, "kind")) THEN
        JObj(meta \o
             << <<"kind", JStr("Entity")>>,
                <<"entity_id", Or(Get(p, "entity_id"), JStr(base \o ":entity"))>>,
                <<"entity_type", Or(Get(p, "entity_type"), JStr("Entity"))>>,
                <<"name", Or(Get(p, "name"),
                             Or(Get(p, "entity_id"), JStr("Entity " \o ToString(idx))))>>,
                <<"attributes", DictOr(Get(p, "attributes"), EmptyObj)>>,
                <<"description", Get(p, "description")>> >>)
    ELSE
        JObj(meta \o
             << <<"kind", JStr("Relation")>>,
                <<"relation_id", Or(Get(p, "relation_id"), JStr(base \o ":rel"))>>,
                <<"rel_type", Or(Get(p, "rel_type"), JStr("related_to"))>>,
                <<"source", Or(Get(p, "source"), JStr(""))>>,
                <<"target", Or(Get(p, "target"), JStr(""))>>,
                <<"attributes", DictOr(Get(p, "attributes"), EmptyObj)>> >>)

\* A loop that numbers the records it keeps: a skipped record takes no index.
RECURSIVE fix_from_real_renumbered(_, _, _)
fix_from_real_renumbered(trace_id, ps, idx) ==
    IF ps = <<>> THEN JList(<<>>)
    ELSE IF ~isdict(Head(ps)) THEN fix_from_real_renumbered(trace_id, Tail(ps), idx)
    ELSE
    LET r == fix_record_real(trace_id, idx, Head(ps)) IN
    IF IsRaise(r) THEN r
    ELSE LET rest == fix_from_real_renumbered(trace_id, Tail(ps), idx + 1) IN
         IF IsRaise(rest) THEN rest ELSE JList(<<r>> \o rest.items)

\* The loop of real.py's _normalize_proposals, lines 122-155, from position
\* idx on: the list of canonical records, or Raised.
RECURSIVE fix_from_real(_, _, _)
fix_from_real(trace_id, ps, idx) ==
    IF ps = <<>> THEN JList(<<>>)
    ELSE IF ~isdict(Head(ps)) THEN fix_from_real(trace_id, Tail(ps), idx + 1)
    ELSE
    LET r == fix_record_real(trace_id, idx, Head(ps)) IN
    IF IsRaise(r) THEN r
    ELSE LET rest == fix_from_real(trace_id, Tail(ps), idx + 1) IN
         IF IsRaise(rest) THEN rest ELSE JList(<<r>> \o rest.items)

WorldModelSource(locator) ==
    JObj(<< <<"source_type", JStr("world_model")>>, <<"locator", locator>> >>)

\* _normalize_proposals(trace_id, data) of real.py, at clock value now
normalize_proposals_real(trace_id, data, now) ==
    LET out == setdefault(setdefault(setdefault(setdefault(
                   DictOr(data, EmptyObj),
                   "version", JInt(1)),
                   "generated_at", JStr(ToString(now))),
                   "source", WorldModelSource(trace_id)),
                   "schema_hint", JNull)
        proposals == ListOr(GetD(out, "proposals", JList(<<>>)), JList(<<>>))
        fixed == fix_from_real(trace_id, proposals.items, 0)
    IN IF IsRaise(fixed) THEN fixed ELSE setitem(out, "proposals", fixed)

\* One pass of the loop of onnx.py's _normalize_proposals, lines 45-75.
fix_record_onnx(trace_id, idx, p) ==
    LET base == base_id(trace_id, idx)
        confidence == float(GetD(p, "confidence", JFloat(DefaultConfidence)))
        meta == << <<"proposal_id", Or(Get(p, "proposal_id"), JStr(base))>>,
                   <<"confidence", confidence>>,
                   <<"evidence", ListOr(Get(p, "evidence"), JList(<<>>))>>,
                   <<"public_rationale",
                     Or(Get(p, "public_rationale"), JStr("onnx world model proposal"))>>,
                   <<"metadata", DictOr(Get(p, "metadata"), EmptyObj)>>,
                   <<"schema_hint", Get(p, "schema_hint")>> >>
    IN
    IF IsRaise(confidence) THEN confidence
    ELSE IF is_entity(GetD(p, "kind", JStr("Relation"))) THEN
        JObj(meta \o
             << <<"kind", JStr("Entity")>>,
                <<"entity_id", Or(Get(p, "entity_id"), JStr(base \o ":entity"))>>,
                <<"entity_type", Or(Get(p, "entity_type"), JStr("Entity"))>>,
                <<"name", Or(Get(p, "name"),
                             Or(Get(p, "entity_id"), JStr("Entity " \o ToString(idx))))>>,
                <<"attributes", DictOr(Get(p, "attributes"), EmptyObj)>>,
                <<"description", Get(p, "description")>> >>)
    ELSE
        JObj(meta \o
             << <<"kind", JStr("Relation")>>,
                <<"relation_id", Or(Get(p, "relation_id"), JStr(base \o ":rel"))>>,
                <<"rel_type", Or(Get(p, "rel_type"), JStr("related_to"))>>,
                <<"source", Or(Get(p, "source"), JStr(""))>>,
                <<"target", Or(Get(p, "target"), JStr(""))>>,
                <<"attributes", DictOr(Get(p, "attributes"), EmptyObj)>> >>)

\* The loop of onnx.py's _normalize_proposals, lines 44-75: no record is skipped.
RECURSIVE fix_from_onnx(_, _, _)
fix_from_onnx(trace_id, ps, idx) ==
    IF ps = <<>> THEN JList(<<>>)
    ELSE IF ~isdict(Head(ps)) THEN Raised("AttributeError")
    ELSE
    LET r == fix_record_onnx(trace_id, idx, Head(ps)) IN
    IF IsRaise(r) THEN r
    ELSE LET rest == fix_from_onnx(trace_id, Tail(ps), idx + 1) IN
         IF IsRaise(rest) THEN rest ELSE JList(<<r>> \o rest.items)

\* _normalize_proposals(trace_id, proposals) of onnx.py, at clock value now
normalize_proposals_onnx(trace_id, proposals, now) ==
    LET fixed == fix_from_onnx(trace_id, proposals, 0) IN
    IF IsRaise(fixed) THEN fixed
    ELSE JObj(<< <<"version", JInt(1)>>,
                 <<"generated_at", JStr(ToString(now))>>,
                 <<"source", WorldModelSource(trace_id)>>,
                 <<"schema_hint", JNull>>,
                 <<"proposals", fixed>> >>)

(***************************************************************************)
(* The world-model plugins.  Each main takes what stdin holds and what the *)
(* environment decides: the clock, and the back end's reply.               *)
(***************************************************************************)
\* stdin with nothing but whitespace on it.
EmptyStdin == [ty |-> "empty"]

ProposalsDoc(now, locator, proposals) ==
    JObj(<< <<"version", JInt(1)>>,
            <<"generated_at", JStr(ToString(now))>>,
            <<"source", WorldModelSource(locator)>>,
            <<"schema_hint", JNull>>,
            <<"proposals", JList(proposals)>> >>)

Envelope(protocol, trace_id, now, proposals, notes, error) ==
    JObj(<< <<"protocol", protocol>>,
            <<"trace_id", trace_id>>,
            <<"generated_at_unix_secs", JInt(now)>>,
            <<"proposals", proposals>>,
            <<"notes", JList(notes)>>,
            <<"error", error>> >>)

\* A call of _normalize_proposals: the plugin, the arguments, and the
\* document returned or Raised.
NoCall == [fn |-> "none"]
NormCall(fn, trace_id, data, result) ==
    [fn |-> fn, trace_id |-> trace_id, data |-> data, result |-> result]

\* The outcome of a run that called _normalize_proposals.
WithCall(o, call) == [stdout |-> o.stdout, rc |-> o.rc, exc |-> o.exc, norm |-> call]
CallOf(o) == IF "norm" \in DOMAIN o THEN o.norm ELSE NoCall

\* The handler of "except Exception" of real.py and onnx.py: the error
\* envelope (error is str(exc), held as the exception's name), exit status 2.
caught(exc, now) ==
    Outcome(<<Envelope(JStr("axiograph_world_model_v1"), JStr("wm::error"), now,
                       ProposalsDoc(now, JStr("error"), <<>>), <<>>, JStr(exc))>>,
            2, exc)

\* v[:n] for a list or a str v; Raised for what cannot be sliced
slice(v, n) ==
    CASE v.ty = "list" ->
            JList(SubSeq(v.items, 1, IF n < 0 THEN Len(v.items) + n
                                     ELSE IF Len(v.items) < n THEN Len(v.items) ELSE n))
      [] v.ty = "str" -> v
      [] OTHER -> Raised("TypeError")

\* The loop of _summarize_request over items[:3]: Raised where it raises.
RECURSIVE summarize_items(_)
summarize_items(its) ==
    IF its = <<>> THEN JNull
    ELSE IF ~isdict(Head(its)) THEN Raised("AttributeError")
    ELSE IF IsRaise(slice(GetD(Head(its), "fields", JList(<<>>)), 4)) THEN Raised("TypeError")
    ELSE IF IsRaise(slice(GetD(Head(its), "mask_fields", JList(<<>>)), 4)) THEN Raised("TypeError")
    ELSE summarize_items(Tail(its))

\* _summarize_request(req): Raised where it raises; the prompt and the
\* summary go to the back end only.
summarize_request(req) ==
    IF ~isdict(req) THEN Raised("AttributeError")
    ELSE
    LET opts == Or(GetD(req, "options", EmptyObj), EmptyObj)
        input_obj == Or(GetD(req, "input", EmptyObj), EmptyObj)
    IN
    IF ~isdict(input_obj) THEN Raised("AttributeError")
    ELSE
    LET export == Get(input_obj, "export")
        items == IF isdict(export)
                 THEN iterate(slice(Or(GetD(export, "items", JList(<<>>)), JList(<<>>)), 3))
                 ELSE JList(<<>>)
    IN
    IF isdict(export) /\ IsRaise(slice(Or(GetD(export, "items", JList(<<>>)), JList(<<>>)), 3))
    THEN Raised("TypeError")
    ELSE IF IsRaise(summarize_items(items.items)) THEN summarize_items(items.items)
    ELSE IF ~isdict(opts) THEN Raised("AttributeError")
    ELSE JNull

\* The back end's reply to real.py: Raised when no back end is configured or
\* the call fails, else the text it returned, held as the first balanced
\* {...} of the text parsed as JSON (Absent when there is none).
BackendText(json) == [ty |-> "text", json |-> json]

\* _extract_json(text)
extract_json(raw) ==
    IF raw.json = Absent THEN Raised("RuntimeError") ELSE raw.json

\* main() of real.py under its "except Exception" handler
main_real(stdin, reply, now) ==
    IF stdin = EmptyStdin THEN caught("RuntimeError", now)
    ELSE IF stdin = NotJson THEN caught("JSONDecodeError", now)
    ELSE IF IsRaise(summarize_request(stdin)) THEN caught(summarize_request(stdin).exc, now)
    ELSE
    LET trace_id == GetD(stdin, "trace_id", JStr("wm::unknown")) IN
    IF IsRaise(reply) THEN caught(reply.exc, now)
    ELSE
    LET parsed == extract_json(reply) IN
    IF IsRaise(parsed) THEN caught(parsed.exc, now)
    ELSE
    LET proposals == normalize_proposals_real(trace_id, parsed, now)
        call == NormCall("real", trace_id, parsed, proposals)
    IN
    IF IsRaise(proposals) THEN WithCall(caught(proposals.exc, now), call)
    ELSE WithCall(
             Outcome(<<Envelope(GetD(stdin, "protocol", JStr("axiograph_world_model_v1")),
                                trace_id, now, proposals, <<JStr("backend=<backend>")>>,
                                JNull)>>,
                     0, "none"),
             call)

\* The dict built from (k, v) pairs with string keys: a later pair of a key
\* replaces its value.
RECURSIVE dict_of_pairs(_)
dict_of_pairs(pairs) ==
    IF pairs = <<>> THEN EmptyObj
    ELSE LET p == pairs[Len(pairs)]
             before == dict_of_pairs(SubSeq(pairs, 1, Len(pairs) - 1))
         IN IF IsRaise(before) THEN before
            ELSE IF ~islist(p) THEN Raised("TypeError")
            ELSE IF Len(p.items) # 2 THEN Raised("ValueError")
            ELSE setitem(before, p.items[1].s, p.items[2])

\* max(0.55, min(0.95, score)), in hundredths
clamp_score(score) == IF score > 95 THEN 95 ELSE IF score < 55 THEN 55 ELSE score

\* One pass of the loop of onnx.py's main, lines 103-129, on item it at
\* position idx with the model's score: the proposal, or Raised.
onnx_proposal(it, idx, score, model_path) ==
    IF ~isdict(it) THEN Raised("AttributeError")
    ELSE
    LET rel == Or(Get(it, "relation"), JStr("related_to"))
        fields == Or(GetD(it, "fields", JList(<<>>)), JList(<<>>))
        field_map == IF islist(fields) THEN dict_of_pairs(fields.items) ELSE EmptyObj
        id == "rel::" \o PyStr(rel) \o "::" \o ToString(idx)
    IN
    IF IsRaise(field_map) THEN field_map
    ELSE IF ~islist(fields) THEN Raised("TypeError")
    ELSE JObj(<< <<"kind", JStr("Relation")>>,
                 <<"proposal_id", JStr(id)>>,
                 <<"confidence", JFloat(clamp_score(score))>>,
                 <<"evidence", JList(<<>>)>>,
                 <<"public_rationale", JStr("onnx world model prediction")>>,
                 <<"metadata", JObj(<< <<"model_path", model_path>> >>)>>,
                 <<"schema_hint", Get(it, "schema")>>,
                 <<"relation_id", JStr(id)>>,
                 <<"rel_type", rel>>,
                 <<"source", IF fields.items # <<>> THEN fields.items[1].items[2] ELSE JStr("")>>,
                 <<"target", IF Len(fields.items) > 1 THEN fields.items[2].items[2] ELSE JStr("")>>,
                 <<"attributes", field_map>> >>)

\* The loop of onnx.py's main over items[:max_new], from position idx on.
RECURSIVE onnx_proposals(_, _, _, _)
onnx_proposals(its, idx, scores, model_path) ==
    IF its = <<>> THEN JList(<<>>)
    ELSE LET r == onnx_proposal(Head(its), idx, scores[idx + 1], model_path) IN
         IF IsRaise(r) THEN r
         ELSE LET rest == onnx_proposals(Tail(its), idx + 1, scores, model_path) IN
              IF IsRaise(rest) THEN rest ELSE JList(<<r>> \o rest.items)

\* int(v) of the max_new_proposals option
int_option(v) ==
    CASE v.ty = "int" -> v
      [] v.ty = "bool" -> JInt(IF v.b THEN 1 ELSE 0)
      [] v.ty = "str" -> IF IsText(v) THEN Raised("ValueError") ELSE int(v.s)
      [] OTHER -> Raised("TypeError")

\* The ONNX session: Raised when onnxruntime or the model file is missing,
\* else the scores the model gives the items, in hundredths.
OnnxSession(scores) == [ty |-> "session", scores |-> scores]

\* main() of onnx.py under its "except Exception" handler
main_onnx(stdin, session, now) ==
    IF stdin = EmptyStdin THEN caught("RuntimeError", now)
    ELSE IF stdin = NotJson THEN caught("JSONDecodeError", now)
    ELSE IF ~isdict(stdin) THEN caught("AttributeError", now)
    ELSE
    LET trace_id == GetD(stdin, "trace_id", JStr("wm::onnx"))
        input_obj == Or(Get(stdin, "input"), EmptyObj)
    IN
    IF ~isdict(input_obj) THEN caught("AttributeError", now)
    ELSE
    LET export == Or(Get(input_obj, "export"), EmptyObj) IN
    IF ~isdict(export) THEN caught("AttributeError", now)
    ELSE
    LET items == Or(GetD(export, "items", JList(<<>>)), JList(<<>>))
        options == Or(GetD(stdin, "options", EmptyObj), EmptyObj)
    IN
    IF ~isdict(options) THEN caught("AttributeError", now)
    ELSE
    LET given == Get(options, "model_path")
        model_path == IF given.ty = "str" /\ Truthy(given) THEN given
                      ELSE JStr("models/world_model_small.onnx")
        max_new == int_option(GetD(options, "max_new_proposals", JInt(50)))
    IN
    IF IsRaise(session) THEN caught(session.exc, now)
    ELSE IF IsRaise(max_new) THEN caught(max_new.exc, now)
    ELSE IF IsRaise(slice(items, max_new.n)) THEN caught("TypeError", now)
    ELSE
    LET raw == onnx_proposals(iterate(slice(items, max_new.n)).items, 0,
                              session.scores, model_path)
    IN
    IF IsRaise(raw) THEN caught(raw.exc, now)
    ELSE
    LET proposals_file == normalize_proposals_onnx(trace_id, raw.items, now)
        call == NormCall("onnx", trace_id, raw, proposals_file)
    IN
    IF IsRaise(proposals_file) THEN WithCall(caught(proposals_file.exc, now), call)
    ELSE WithCall(
             Outcome(<<Envelope(GetD(stdin, "protocol", JStr("axiograph_world_model_v1")),
                                trace_id, now, proposals_file,
                                <<JStr("backend=onnx model=" \o PyStr(model_path))>>,
                                JNull)>>,
                     0, "none"),
             call)

\* infer_endpoints(field_names)
infer_endpoints(names) ==
    IF Contains(names, "from") /\ Contains(names, "to") THEN <<"from", "to">>
    ELSE IF Contains(names, "source") /\ Contains(names, "target") THEN <<"source", "target">>
    ELSE IF Contains(names, "lhs") /\ Contains(names, "rhs") THEN <<"lhs", "rhs">>
    ELSE IF Contains(names, "child") /\ Contains(names, "parent") THEN <<"child", "parent">>
    ELSE IF Len(names) >= 2 THEN <<names[1], names[2]>>
    ELSE <<"", "">>

\* One pass of the loop of baseline.py's main, lines 60-88: a list of one
\* proposal, the empty list when the item is passed over, or Raised.
baseline_proposal(item, idx, strategy) ==
    IF ~isdict(item) THEN Raised("AttributeError")
    ELSE
    LET fields == iterate(GetD(item, "fields", JList(<<>>))) IN
    IF IsRaise(fields) THEN fields
    ELSE
    LET field_map == dict_of_pairs(fields.items) IN
    IF IsRaise(field_map) THEN field_map
    ELSE
    LET ends == infer_endpoints([i \in 1..Len(field_map.kv) |-> field_map.kv[i][1]])
        src == GetD(field_map, ends[1], JStr(""))
        dst == GetD(field_map, ends[2], JStr(""))
        rel == GetD(item, "relation", JStr("Rel"))
        id == "rel::" \o PyStr(rel) \o "::" \o PyStr(src) \o "::" \o PyStr(dst)
              \o "::" \o ToString(idx)
    IN
    IF ends[1] = "" \/ ends[2] = "" \/ ~Truthy(src) \/ ~Truthy(dst) THEN JList(<<>>)
    ELSE JList(<<JObj(<<
             <<"kind", JStr("Relation")>>,
             <<"proposal_id", JStr(id)>>,
             <<"confidence", JFloat(IF strategy = "oracle" THEN 90 ELSE 50)>>,
             <<"evidence", JList(<<>>)>>,
             <<"public_rationale", JStr("baseline::" \o strategy)>>,
             <<"metadata", JObj(<< <<"baseline", JStr(strategy)>> >>)>>,
             <<"schema_hint", Get(item, "schema")>>,
             <<"relation_id", JStr(id)>>,
             <<"rel_type", rel>>,
             <<"source", src>>,
             <<"target", dst>>,
             <<"attributes", field_map>> >>)>>)

\* The loop of baseline.py's main over the items, from position idx on.
RECURSIVE baseline_proposals(_, _, _)
baseline_proposals(its, idx, strategy) ==
    IF its = <<>> THEN JList(<<>>)
    ELSE LET r == baseline_proposal(Head(its), idx, strategy) IN
         IF IsRaise(r) THEN r
         ELSE LET rest == baseline_proposals(Tail(its), idx + 1, strategy) IN
              IF IsRaise(rest) THEN rest ELSE JList(r.items \o rest.items)

\* load_export(req), for a dict req; file is what reading export_path gives
load_export(req, file) ==
    LET input_obj == GetD(req, "input", EmptyObj) IN
    IF ~isdict(input_obj) THEN Raised("AttributeError")
    ELSE IF Truthy(Get(input_obj, "export")) THEN Get(input_obj, "export")
    ELSE IF Truthy(Get(input_obj, "export_path")) THEN file
    ELSE EmptyObj

\* main() of baseline.py: nothing catches what it raises
main_baseline(stdin, strategy, file, now) ==
    IF stdin \in {EmptyStdin, NotJson} THEN Uncaught("JSONDecodeError")
    ELSE IF ~isdict(stdin) THEN Uncaught("AttributeError")
    ELSE IF Get(stdin, "protocol") # JStr("axiograph_world_model_v1")
    THEN Outcome(<<>>, 1, "SystemExit")
    ELSE
    LET export == load_export(stdin, file) IN
    IF IsRaise(export) THEN Uncaught(export.exc)
    ELSE IF ~isdict(export) THEN Uncaught("AttributeError")
    ELSE
    LET items == iterate(GetD(export, "items", JList(<<>>))) IN
    IF IsRaise(items) THEN Uncaught(items.exc)
    ELSE
    LET proposals == baseline_proposals(items.items, 0, strategy) IN
    IF IsRaise(proposals) THEN Uncaught(proposals.exc)
    ELSE Outcome(<<Envelope(JStr("axiograph_world_model_v1"),
                            GetD(stdin, "trace_id", JStr("wm::baseline")), now,
                            ProposalsDoc(now, GetD(stdin, "trace_id", JStr("")),
                                         proposals.items),
                            <<JStr("baseline strategy=" \o strategy \o " proposals="
                                   \o ToString(Len(proposals.items)))>>,
                            JNull)>>,
                 0, "none")

\* main() of transformer_stub.py
main_stub(stdin, now) ==
    IF stdin \in {EmptyStdin, NotJson} THEN Uncaught("JSONDecodeError")
    ELSE IF ~isdict(stdin) THEN Uncaught("AttributeError")
    ELSE IF Get(stdin, "protocol") # JStr("axiograph_world_model_v1")
    THEN Outcome(<<>>, 1, "SystemExit")
    ELSE Outcome(<<Envelope(JStr("axiograph_world_model_v1"),
                            GetD(stdin, "trace_id", JStr("wm::transformer_stub")), now,
                            ProposalsDoc(now, GetD(stdin, "trace_id", JStr("")), <<>>),
                            <<JStr("transformer stub: replace with real model")>>,
                            JNull)>>,
                 0, "none")

(***************************************************************************)
(* The requests the host can send.                                         *)
(***************************************************************************)
\* A dict from a sequence of <<key, value>> pairs, a pair left out when its
\* value is Absent (the key is not in the JSON object).
Present(pair) == pair[2] # Absent
Obj(kv) == JObj(SelectSeq(kv, Present))

\* The tokens of a question, a single space between two of them.
RECURSIVE Spaced(_)
Spaced(ts) ==
    IF Len(ts) <= 1 THEN ts ELSE <<ts[1], Whitespace>> \o Spaced(Tail(ts))

ExampleTokenSeqs ==
    {<<"from", "3", "follow", "rel_0", "rel_2">>,
     <<"find", "Node", "named", "b">>,
     <<"find", "Thing", "named", "b">>}

TokenSeqs == UNION {[1..n -> Vocab] : n \in 0..MaxTokens} \cup ExampleTokenSeqs

\* The question strings: every token sequence, and some with whitespace around.
Texts ==
    {JText(Spaced(ts)) : ts \in TokenSeqs}
    \cup {JText(<<Whitespace>> \o Spaced(ts) \o <<Whitespace>>) :
             ts \in ExampleTokenSeqs \cup {<<>>}}

QuestionValues == Texts \cup {Absent, JNull, JStr(""), JInt(5), JList(<<JStr("find")>>)}

\* Values bound to a variable in a result row.
EntityX == Obj(<< <<"id", JInt(7)>>, <<"name", JStr("x")>>, <<"entity_type", JStr("Thing")>> >>)
EntityY == Obj(<< <<"id", JInt(8)>>, <<"entity_type", JStr("T")>> >>)
BoundValues == {EntityX, EntityY, JStr("plain"), Obj(<< <<"name", JStr("n")>> >>)}

RowValues ==
    {JInt(1), EmptyObj}
    \cup {Obj(<< <<"?x", v>> >>) : v \in BoundValues}
    \cup {Obj(<< <<"?x", v>>, <<"?y", w>> >>) : v \in {EntityX, JStr("plain")}, w \in {EntityY}}
    \cup {Obj(<< <<"?y", EntityY>>, <<"?x", EntityX>> >>)}

RowsValues ==
    {Absent, JNull, JList(<<>>), JInt(5), JBool(TRUE), JStr("a"),
     Obj(<< <<"k", JInt(1)>> >>)}
    \cup {JList(<<r>>) : r \in RowValues}
    \cup {JList(<<r, EmptyObj>>) : r \in RowValues}

ResultsValues ==
    {Absent, JNull, JList(<<JInt(1)>>), JInt(5), JStr("r")}
    \cup {Obj(<< <<"rows", rows>> >>) : rows \in RowsValues}

QueryTexts == {Absent, JStr("select ?x where ?x is Node limit 20")}

\* The result field of a transcript entry.
ResultValues ==
    {Absent, JNull, JList(<<>>), JList(<<JInt(1)>>), JStr("oops"), JInt(5)}
    \cup {Obj(<< <<"query", qt>>, <<"results", rs>> >>) :
             qt \in QueryTexts, rs \in ResultsValues}

EntryValues ==
    {JInt(1), JStr("x"), JNull, EmptyObj}
    \cup {Obj(<< <<"tool", t>>, <<"args", EmptyObj>>, <<"result", r>> >>) :
             t \in {JStr("axql_run")}, r \in ResultValues}
    \cup {Obj(<< <<"tool", t>>, <<"args", EmptyObj>>, <<"result", r>> >>) :
             t \in {Absent, JStr("other")},
             r \in {Absent, EmptyObj,
                    Obj(<< <<"results", Obj(<< <<"rows", JList(<<EmptyObj>>)>> >>)>> >>)}}

\* The transcript field of a tool_loop_step task.
TranscriptValues ==
    {Absent, JNull, JList(<<>>), EmptyObj, JStr(""), JInt(0)}
    \cup {JStr("a"), JInt(5), JBool(TRUE), Obj(<< <<"tool", JStr("axql_run")>> >>)}
    \cup {JList(<<e>>) : e \in EntryValues}
    \cup {JList(<<EmptyObj, e>>) : e \in EntryValues}

FirstTurnTranscripts == {Absent, JNull, JList(<<>>), EmptyObj, JStr(""), JInt(0)}

DomainValues ==
    {Absent, JStr("machining"), JStr("Machining"), JStr("milling"), JInt(5),
     JText(<<Whitespace, "Machining", Whitespace>>)}

ProposalValues ==
    {JInt(1), JStr("p")}
    \cup {Obj(<< <<"proposal_id", pid>>, <<"metadata", Obj(<< <<"domain", md>> >>)>>,
                 <<"attributes", Obj(<< <<"domain", ad>> >>)>> >>) :
             pid \in {Absent, JStr("p1")}, md \in DomainValues, ad \in DomainValues}
    \cup {Obj(<< <<"proposal_id", JStr("p2")>>, <<"metadata", md>>, <<"attributes", at>> >>) :
             md \in {Absent, JNull, JStr("m")},
             at \in {Absent, JList(<<>>), Obj(<< <<"domain", JStr("machining")>> >>)}}

ProposalsValues ==
    {Absent, JNull, JInt(5), JStr("ps"), Obj(<< <<"k", EmptyObj>> >>)}
    \cup {JList(<<p>>) : p \in ProposalValues}
    \cup {JList(<<JInt(1), p>>) : p \in ProposalValues}

ProposalsFileValues ==
    {Absent, JNull, JList(<<JInt(1)>>), JStr("doc")}
    \cup {Obj(<< <<"proposals", ps>> >>) : ps \in ProposalsValues}

KindValues ==
    {Absent, JNull, JStr(""), JStr("foo"), JStr("To_Query"), JInt(5), JList(<<>>)}

\* The task field of a request.
TaskValues ==
    {Absent, JNull, EmptyObj, JList(<<JInt(1)>>), JStr("task"), JInt(5)}
    \cup {Obj(<< <<"kind", k>>, <<"question", JText(<<"find", Whitespace, "Node">>)>> >>) :
             k \in KindValues}
    \cup {Obj(<< <<"kind", JStr("to_query")>>, <<"question", q>> >>) : q \in QuestionValues}
    \cup {Obj(<< <<"kind", JStr("answer")>>, <<"results", rs>> >>) : rs \in ResultsValues}
    \cup {Obj(<< <<"kind", JStr("augment_proposals")>>, <<"proposals", pf>> >>) :
             pf \in ProposalsFileValues}
    \cup {Obj(<< <<"kind", JStr("tool_loop_step")>>, <<"question", q>>, <<"transcript", t>> >>) :
             q \in QuestionValues, t \in FirstTurnTranscripts}
    \cup {Obj(<< <<"kind", JStr("tool_loop_step")>>, <<"question", q>>, <<"transcript", t>> >>) :
             q \in {Absent, JInt(5), JText(<<"find", Whitespace, "Node">>)},
             t \in TranscriptValues}

WorldModelProtocol == JStr("axiograph_world_model_v1")

OtherProtocols == {Absent, JNull, JStr("bogus"), JInt(3), WorldModelProtocol}

\* What the LLM plugin can find on stdin.
LlmRequests ==
    {NotJson, JNull, JList(<<JInt(1)>>), JStr("req"), JInt(5)}
    \cup {Obj(<< <<"protocol", p>>, <<"task", t>> >>) :
             p \in OtherProtocols,
             t \in {Absent, Obj(<< <<"kind", JStr("to_query")>> >>),
                    Obj(<< <<"kind", JStr("foo")>> >>)}}
    \cup {Obj(<< <<"protocol", p>>, <<"task", t>> >>) : p \in LlmProtocols, t \in TaskValues}

(***************************************************************************)
(* What the world-model plugins can find on stdin, and what their          *)
(* environment can answer.                                                 *)
(***************************************************************************)
Pair(k, v) == JList(<<JStr(k), v>>)

GoodItem ==
    Obj(<< <<"relation", JStr("knows")>>, <<"schema", JStr("S")>>,
           <<"fields", JList(<<Pair("from", JStr("a")), Pair("to", JStr("b"))>>)>> >>)

ItemValues ==
    {GoodItem, JInt(1),
     Obj(<< <<"fields", JList(<<Pair("x", JStr("a"))>>)>> >>),
     Obj(<< <<"relation", JStr("r")>>,
            <<"fields", JList(<<Pair("lhs", JStr("a")), Pair("rhs", JStr(""))>>)>> >>),
     Obj(<< <<"fields", JNull>> >>),
     Obj(<< <<"fields", JList(<<JInt(1)>>)>> >>)}

ItemsValues ==
    {Absent, JNull, JList(<<>>), JInt(5)}
    \cup {JList(<<it>>) : it \in ItemValues}
    \cup {JList(<<GoodItem, it>>) : it \in ItemValues}

ExportValues == {Absent, JNull, JStr("e")} \cup {Obj(<< <<"items", v>> >>) : v \in ItemsValues}

InputValues ==
    {Absent, JNull, JStr("in"), Obj(<< <<"export_path", JStr("export.json")>> >>)}
    \cup {Obj(<< <<"export", e>> >>) : e \in ExportValues}

OptionsValues ==
    {Absent, JNull, JStr("o")}
    \cup {Obj(<< <<"max_new_proposals", m>>, <<"model_path", mp>> >>) :
             m \in {Absent, JNull, JInt(1), JStr("x")}, mp \in {Absent, JStr("m.onnx")}}

GoodInput == Obj(<< <<"export", Obj(<< <<"items", JList(<<GoodItem, GoodItem>>)>> >>)>> >>)

WmRequest(p, t, i, o) ==
    Obj(<< <<"protocol", p>>, <<"trace_id", t>>, <<"input", i>>, <<"options", o>> >>)

WmProtocols == {WorldModelProtocol, Absent, JStr("bogus"), JStr("axiograph_llm_plugin_v2")}

TraceIds == {Absent, JStr("t1")}

WmRequests ==
    {NotJson, EmptyStdin, JNull, JList(<<JInt(1)>>)}
    \cup {WmRequest(p, t, i, Absent) : p \in WmProtocols, t \in TraceIds, i \in InputValues}
    \cup {WmRequest(WorldModelProtocol, JStr("t1"), GoodInput, o) : o \in OptionsValues}

\* What reading the file at export_path gives baseline.py.
FileValues == {Raised("FileNotFoundError"), Obj(<< <<"items", JList(<<GoodItem>>)>> >>)}

Clock == 1..MaxClock

\* The records a back end puts in its proposals list.
ProposalRecords ==
    {JInt(1), JNull, EmptyObj,
     Obj(<< <<"kind", JStr("Entity")>>, <<"proposal_id", JStr("p1")>>,
            <<"confidence", JFloat(90)>>, <<"entity_id", JStr("e1")>>,
            <<"name", JStr("n1")>> >>),
     Obj(<< <<"kind", JStr("entity")>>, <<"confidence", JFloat(150)>> >>),
     Obj(<< <<"proposal_id", JStr("")>>, <<"confidence", JFloat(-50)>> >>),
     Obj(<< <<"confidence", JNull>> >>),
     Obj(<< <<"confidence", JStr("high")>> >>),
     Obj(<< <<"proposal_id", JStr("p2")>>, <<"confidence", JStr("0.9")>> >>),
     Obj(<< <<"kind", JStr("Relation")>>, <<"confidence", JInt(1)>>,
            <<"evidence", JStr("e")>>, <<"metadata", JList(<<>>)>>,
            <<"attributes", JInt(5)>>, <<"source", JStr("a")>> >>)}

RecordLists == UNION {[1..n -> ProposalRecords] : n \in 0..MaxProposals}

\* The JSON object a back end's text holds.
ModelDocs ==
    {EmptyObj}
    \cup {Obj(<< <<"proposals", v>> >>) : v \in {JNull, JStr("none"), EmptyObj}}
    \cup {Obj(<< <<"proposals", JList(rs)>> >>) : rs \in RecordLists}
    \cup {Obj(<< <<"generated_at", JStr("123")>>, <<"proposals", JList(<<r>>)>>,
                 <<"version", JInt(2)>> >>) : r \in ProposalRecords}

SomeReplies ==
    {Raised("RuntimeError"), Raised("URLError"), BackendText(Absent),
     BackendText(Obj(<< <<"proposals", JList(<<EmptyObj>>)>> >>))}

AllReplies == SomeReplies \cup {BackendText(d) : d \in ModelDocs}

\* The scores the ONNX model gives, in hundredths: a sigmoid's values.
ScoreValues == {30, 99}

Sessions ==
    {Raised("RuntimeError")} \cup {OnnxSession(sc) : sc \in [1..2 -> ScoreValues]}

(***************************************************************************)
(* The state machine.                                                      *)
(***************************************************************************)
Init ==
    /\ plugin = "none"
    /\ request = JNull
    /\ stdout = <<>>
    /\ rc = NoExit
    /\ question = JNull
    /\ transcript = <<>>
    /\ actions = <<>>
    /\ phase = "idle"
    /\ norm_call = NoCall

Fresh == plugin = "none" /\ phase = "idle"

\* One run of the LLM plugin process on a request.
RunLlmPlugin ==
    /\ Fresh
    /\ \E req \in LlmRequests :
        LET o == main(req) IN
        /\ plugin' = "llm"
        /\ request' = req
        /\ stdout' = o.stdout
        /\ rc' = o.rc
    /\ UNCHANGED <<question, transcript, actions, phase, norm_call>>

(***************************************************************************)
(* The host's side of one ask (spec 4.3): it calls the engine with the     *)
(* whole transcript, runs the tool the engine asks for, appends the        *)
(* result and calls again.                                                 *)
(***************************************************************************)
\* What the host's tool executor returns for axql_run.
ToolResults ==
    {Obj(<< <<"query", JStr("select ?x where ?x is Node limit 20")>>,
            <<"results", Obj(<< <<"rows", rows>> >>)>> >>) :
        rows \in {JList(<<>>), JList(<<Obj(<< <<"?x", EntityX>> >>)>>), JInt(5)}}
    \cup {JNull, Obj(<< <<"results", JList(<<JInt(1)>>)>> >>)}

StepRequest(q, trans) ==
    Obj(<< <<"protocol", JStr("axiograph_llm_plugin_v3")>>,
           <<"task", Obj(<< <<"kind", JStr("tool_loop_step")>>,
                            <<"question", q>>,
                            <<"transcript", JList(trans)>> >>)>> >>)

\* The kind of action a response carries: "tool_call", "final_answer" or "none".
ActionOf(out) ==
    IF Len(out) = 1 /\ isdict(out[1]) /\ HasKey(out[1], "tool_call") THEN "tool_call"
    ELSE IF Len(out) = 1 /\ isdict(out[1]) /\ HasKey(out[1], "final_answer") THEN "final_answer"
    ELSE "none"

HostAsk ==
    /\ Fresh
    /\ \E q \in Texts : question' = q
    /\ phase' = "call"
    /\ plugin' = "llm"
    /\ UNCHANGED <<request, stdout, rc, transcript, actions, norm_call>>

HostCall ==
    /\ phase = "call"
    /\ Len(actions) < MaxTurns
    /\ LET req == StepRequest(question, transcript)
           o == main(req)
           a == ActionOf(o.stdout)
       IN /\ request' = req
          /\ stdout' = o.stdout
          /\ rc' = o.rc
          /\ actions' = IF a = "none" THEN actions ELSE Append(actions, a)
          /\ phase' = CASE a = "tool_call" -> "tool"
                        [] a = "final_answer" -> "done"
                        [] OTHER -> "failed"
    /\ UNCHANGED <<plugin, question, transcript, norm_call>>

HostRunTool ==
    /\ phase = "tool"
    /\ \E result \in ToolResults :
        LET call == Get(stdout[1], "tool_call") IN
        transcript' = Append(transcript,
                             Obj(<< <<"tool", Get(call, "name")>>,
                                    <<"args", Get(call, "args")>>,
                                    <<"result", result>> >>))
    /\ phase' = "call"
    /\ UNCHANGED <<plugin, request, stdout, rc, question, actions, norm_call>>

\* The host calls once more after the final answer, with the same transcript.
HostReplay ==
    /\ phase = "done"
    /\ Len(actions) < MaxTurns
    /\ phase' = "call"
    /\ UNCHANGED <<plugin, request, stdout, rc, question, transcript, actions, norm_call>>

\* One run of a world-model plugin process.
Ran(name, req, o) ==
    /\ plugin' = name
    /\ request' = req
    /\ stdout' = o.stdout
    /\ rc' = o.rc
    /\ norm_call' = CallOf(o)
    /\ UNCHANGED <<question, transcript, actions, phase>>

RunBaseline ==
    /\ Fresh
    /\ \E req \in WmRequests, strategy \in {"oracle", "random"}, file \in FileValues,
          now \in Clock :
        Ran("baseline", req, main_baseline(req, strategy, file, now))

RunStub ==
    /\ Fresh
    /\ \E req \in WmRequests, now \in Clock : Ran("stub", req, main_stub(req, now))

RunReal ==
    /\ Fresh
    /\ \/ \E req \in WmRequests, reply \in SomeReplies, now \in Clock :
             Ran("real", req, main_real(req, reply, now))
       \/ \E t \in TraceIds, reply \in AllReplies, now \in Clock :
             LET req == WmRequest(WorldModelProtocol, t, GoodInput, Absent) IN
             Ran("real", req, main_real(req, reply, now))

RunOnnx ==
    /\ Fresh
    /\ \E req \in WmRequests, session \in Sessions, now \in Clock :
        Ran("onnx", req, main_onnx(req, session, now))

Next ==
    \/ RunLlmPlugin
    \/ RunBaseline
    \/ RunStub
    \/ RunReal
    \/ RunOnnx
    \/ HostAsk
    \/ HostCall
    \/ HostRunTool
    \/ HostReplay

Spec == Init /\ [][Next]_vars

(***************************************************************************)
(* The claims.  What was asked of the last run of the LLM plugin.          *)
(***************************************************************************)
LlmRan == plugin = "llm" /\ rc # NoExit

\* The request names an LLM protocol and its task is a map, or absent or null.
LlmTaskRequest ==
    /\ LlmRan
    /\ isdict(request)
    /\ Get(request, "protocol") \in LlmProtocols
    /\ (isdict(Get(request, "task")) \/ Get(request, "task") = JNull)

ReqTask == Or(Get(request, "task"), EmptyObj)
ReqKind == Get(ReqTask, "kind")

ToolLoopRequest == LlmTaskRequest /\ ReqKind = JStr("tool_loop_step")

ReqQuestion == Get(ReqTask, "question")
ReqTranscript == Get(ReqTask, "transcript")

\* The question of the request is a string, or absent.
QuestionOk == ReqQuestion.ty \in {"str", "null"}

\* A first turn: the question is a string, the transcript absent or empty.
FirstTurnRequest ==
    /\ ToolLoopRequest
    /\ ReqQuestion.ty = "str"
    /\ ReqTranscript \in {JNull, JList(<<>>)}

\* The response is one tool_call for axql_run with a query IR and limit 25.
IsAxqlToolCall(out) ==
    /\ Len(out) = 1
    /\ ActionOf(out) = "tool_call"
    /\ LET call == Get(out[1], "tool_call") IN
       /\ Get(call, "name") = JStr("axql_run")
       /\ isdict(Get(call, "args"))
       /\ isdict(Get(Get(call, "args"), "query_ir_v1"))
       /\ Get(Get(call, "args"), "limit") = JInt(25)

\* C1: on a first turn (a question string, the transcript absent or empty)
\* tool_loop_step answers with a tool_call, never a final_answer: the call
\* names axql_run and carries the query IR and limit 25.
C1_FirstTurnIsToolCall ==
    FirstTurnRequest => rc = 0 /\ IsAxqlToolCall(stdout)

\* C2: over one ask, the host appending each tool result and replaying the
\* transcript, the engine's actions never hold two tool calls in a row nor a
\* tool call after a final answer.
C2_Ordering ==
    /\ \A i \in 1..(Len(actions) - 1) :
          ~(actions[i] = "tool_call" /\ actions[i + 1] = "tool_call")
    /\ \A i \in 1..Len(actions) : \A j \in (i + 1)..Len(actions) :
          actions[i] = "final_answer" => actions[j] # "tool_call"

\* An ask that ran a tool, got its final answer and was called once more.
C2_Witness == actions = <<"tool_call", "final_answer", "final_answer">>

\* The last transcript entry is a map with tool axql_run whose result is a map.
AxqlResultRequest ==
    /\ ToolLoopRequest
    /\ islist(ReqTranscript) /\ ReqTranscript.items # <<>>
    /\ LET last == ReqTranscript.items[Len(ReqTranscript.items)] IN
       /\ isdict(last)
       /\ Get(last, "tool") = JStr("axql_run")
       /\ isdict(Get(last, "result"))

LastResult == Get(ReqTranscript.items[Len(ReqTranscript.items)], "result")

\* result.results.rows as the claim reads it: the rows when results is a map
\* and rows a list, the empty sequence when either is absent or malformed.
ClaimedRows ==
    LET results == Get(LastResult, "results") IN
    IF isdict(results) /\ islist(Get(results, "rows")) THEN Get(results, "rows").items
    ELSE <<>>

ClaimedAnswer ==
    WithParts(FoundMsg(Len(ClaimedRows)),
              IF ClaimedRows # <<>> /\ isdict(ClaimedRows[1])
              THEN BindingParts(ClaimedRows[1].kv) ELSE <<>>)

ClaimedQueries ==
    IF Truthy(Get(LastResult, "query")) THEN <<Get(LastResult, "query")>> ELSE <<>>

\* C3: when the last entry is an axql_run result, tool_loop_step answers with
\* the final_answer "Found N result rows." (N the number of rows, 0 when rows
\* or results is absent or malformed) followed by the first row's bindings,
\* with no citations, the result's query and the backend note.
C3_AnswerTurn ==
    (AxqlResultRequest /\ QuestionOk) =>
        rc = 0 /\ stdout = <<FinalAnswer(ClaimedAnswer, ClaimedQueries)>>

\* The transcript is a non-empty list.
NonEmptyTranscriptRequest ==
    ToolLoopRequest /\ islist(ReqTranscript) /\ ReqTranscript.items # <<>>

\* Any other shape: the last entry is not a map, or its tool is not axql_run,
\* or its result is not a map.
OtherShapeRequest ==
    /\ NonEmptyTranscriptRequest
    /\ LET last == ReqTranscript.items[Len(ReqTranscript.items)] IN
       \/ ~isdict(last)
       \/ Get(last, "tool") # JStr("axql_run")
       \/ ~isdict(Get(last, "result"))

\* C4: a non-empty transcript of any other shape gets the generic final
\* answer "Done." without failing; hence every non-empty transcript gets a
\* final answer.
C4_FallbackAndTermination ==
    /\ (OtherShapeRequest /\ QuestionOk) =>
           rc = 0 /\ stdout = <<FinalAnswer("Done.", <<>>)>>
    /\ (NonEmptyTranscriptRequest /\ QuestionOk) =>
           rc = 0 /\ ActionOf(stdout) = "final_answer"

TaskKinds ==
    {JStr("to_query"), JStr("answer"), JStr("augment_proposals"), JStr("tool_loop_step")}

UnknownKindRequest == LlmTaskRequest /\ ReqKind \notin TaskKinds

ErrorObject(message) == JObj(<< <<"error", JStr(message)>> >>)

\* The kind as Python's repr() writes it.
KindRepr(kind) ==
    CASE kind.ty = "str" -> "'" \o kind.s \o "'"
      [] kind.ty = "int" -> ToString(kind.n)
      [] kind.ty = "list" -> "[]"
      [] OTHER -> "None"

\* The kind as given: a string kind bare, without quotes.
KindAsGiven(kind) ==
    CASE kind.ty = "str" -> kind.s
      [] kind.ty = "int" -> ToString(kind.n)
      [] kind.ty = "list" -> "[]"
      [] OTHER -> "None"

C7_AlwaysOneResponse ==
    (LlmRan /\ request # NotJson) =>
        /\ rc = 0
        /\ Len(stdout) = 1
        /\ isdict(stdout[1])
        /\ (HasKey(stdout[1], "error") => Len(stdout[1].kv) = 1)

\* The protocol identifiers of the plugin family.
KnownProtocols == LlmProtocols \cup {WorldModelProtocol}

\* A plugin ran on a JSON object whose protocol is none of the identifiers.
UnsupportedProtocolRequest ==
    /\ rc # NoExit
    /\ isdict(request)
    /\ Get(request, "protocol") \notin KnownProtocols

\* C5: for every request with an unrecognized protocol, at every plugin entry
\* point, the response is exactly {error: "unsupported protocol"} and the
\* exit code is 0.
C5_UnsupportedProtocol ==
    UnsupportedProtocolRequest =>
        rc = 0 /\ stdout = <<ErrorObject("unsupported protocol")>>

\* _normalize_proposals was called and returned a document.
Normalized == norm_call.fn # "none" /\ ~IsRaise(norm_call.result)

\* The records given to the canonicalizer, and those it returned.
NormInput ==
    IF norm_call.fn = "real"
    THEN ListOr(Get(DictOr(norm_call.data, EmptyObj), "proposals"), JList(<<>>)).items
    ELSE norm_call.data.items
NormOutput == Get(norm_call.result, "proposals").items

\* The positions (from 1) of the map-shaped input records.
KeptPositions == {i \in 1..Len(NormInput) : isdict(NormInput[i])}

\* The place in the output of the input record at kept position i.
OutputPlace(i) == Cardinality({j \in KeptPositions : j <= i})

\* C8: in the document the canonicalizer returns, the map-shaped records
\* appear in input order and the others are left out; a record with no
\* confidence gets exactly 0.7, and a record with no proposal_id gets
\* wm::<trace_id>::<i>, i its position (from 0) in the input, whatever was
\* skipped before it.
C8_Defaults ==
    Normalized =>
        /\ Len(NormOutput) = Cardinality(KeptPositions)
        /\ \A i \in KeptPositions :
            LET p == NormInput[i]
                r == NormOutput[OutputPlace(i)]
            IN /\ ~HasKey(p, "confidence") => Get(r, "confidence") = JFloat(70)
               /\ ~HasKey(p, "proposal_id") =>
                      Get(r, "proposal_id")
                          = JStr("wm::" \o PyStr(norm_call.trace_id) \o "::" \o ToString(i - 1))
               /\ HasKey(p, "proposal_id") /\ Truthy(Get(p, "proposal_id")) =>
                      Get(r, "proposal_id") = Get(p, "proposal_id")

\* real.py skipped a record that is no map and gave the next one, which has
\* neither field, the id of position 1 and the confidence 0.7.
C8_Witness ==
    /\ Normalized
    /\ norm_call.fn = "real"
    /\ norm_call.trace_id = JStr("t1")
    /\ Len(NormInput) = 2
    /\ ~isdict(NormInput[1])
    /\ NormInput[2] = EmptyObj
    /\ Len(NormOutput) = 1
    /\ Get(NormOutput[1], "proposal_id") = JStr("wm::t1::1")
    /\ Get(NormOutput[1], "confidence") = JFloat(70)

\* C9: the canonicalizer never raises, whatever the records hold.
C9_Total == norm_call.fn # "none" => ~IsRaise(norm_call.result)

\* C10: after canonicalization every confidence lies in [0, 1].
C10_ConfidenceInUnitInterval ==
    Normalized =>
        \A k \in 1..Len(NormOutput) :
            LET c == Get(NormOutput[k], "confidence") IN
            c.ty = "float" /\ 0 <= c.c /\ c.c <= 100

\* real.py's canonicalizer returned a document.
NormalizedByReal == Normalized /\ norm_call.fn = "real"

\* C11: normalizing again the document real.py's canonicalizer returned, with
\* the same trace_id and at any later clock value, returns that same
\* document: the same proposals in the same order, every field unchanged,
\* generated_at and the fallback ids kept as the first pass filled them.
C11_Idempotent ==
    NormalizedByReal =>
        \A now \in Clock :
            normalize_proposals_real(norm_call.trace_id, norm_call.result, now)
                = norm_call.result

\* A document whose generated_at and ids the first pass filled (one record
\* skipped, two kept) is normalized again at another clock value.
C11_Witness ==
    /\ NormalizedByReal
    /\ ~HasKey(norm_call.data, "generated_at")
    /\ Len(NormInput) = 2 /\ NormInput[2] = EmptyObj
    /\ Len(NormOutput) = 1
    /\ Get(NormOutput[1], "proposal_id") = JStr("wm::t1::1")
    /\ \E now \in Clock :
        /\ Get(norm_call.result, "generated_at") # JStr(ToString(now))
        /\ normalize_proposals_real(norm_call.trace_id, norm_call.result, now)
               = norm_call.result

\* A to_query request whose question is a string.
ToQueryRequest ==
    /\ LlmTaskRequest
    /\ ReqKind = JStr("to_query")
    /\ ReqQuestion.ty = "str"

\* The query IR a response carries: of a to_query payload, or of the args of
\* a tool call; Absent when the response carries none.
ResponseIR ==
    IF Len(stdout) # 1 \/ ~isdict(stdout[1]) THEN Absent
    ELSE IF HasKey(stdout[1], "query_ir_v1") THEN Get(stdout[1], "query_ir_v1")
    ELSE IF HasKey(stdout[1], "tool_call")
    THEN Get(Get(Get(stdout[1], "tool_call"), "args"), "query_ir_v1")
    ELSE Absent

\* A query IR with limit 20 and a non-empty select.
IsBoundedQueryIR(ir) ==
    /\ isdict(ir)
    /\ Get(ir, "limit") = JInt(20)
    /\ islist(Get(ir, "select")) /\ Get(ir, "select").items # <<>>

\* C12: for any question string, to_query and the first turn of the tool
\* loop return, without failing, a query IR with limit 20 and a non-empty
\* select.
C12_BuilderTotal ==
    (ToQueryRequest \/ FirstTurnRequest) =>
        rc = 0 /\ IsBoundedQueryIR(ResponseIR)

\* The first turn of the tool loop on the question of the request.
FirstTurnOnSameQuestion ==
    respond_tool_loop_step(
        JObj(<< <<"kind", JStr("tool_loop_step")>>, <<"question", ReqQuestion>> >>))

\* The query IR in the args of the tool call of a first turn's outcome.
ToolCallIR(o) == Get(Get(Get(o.stdout[1], "tool_call"), "args"), "query_ir_v1")

\* C13: for every question string, the query IR and the query text that
\* to_query returns are the ones the tool loop's builder gives its axql_run
\* call on a first turn for the same question, and either both fail or
\* neither does.
C13_SameQueryInBothProtocols ==
    ToQueryRequest =>
        LET step == FirstTurnOnSameQuestion
            built == build_query_payload(strip(ReqQuestion))
        IN /\ (rc = 0) <=> (step.rc = 0)
           /\ rc = 0 =>
                /\ Len(stdout) = 1
                /\ Get(stdout[1], "query_ir_v1") = ToolCallIR(step)
                /\ Get(stdout[1], "axql") = Get(built, "axql")

\* to_query answered "find Thing named b", written with whitespace around it,
\* with the attribute atom alone, as the first turn does.
C13_Witness ==
    /\ ToQueryRequest
    /\ IsText(ReqQuestion)
    /\ split(ReqQuestion) = <<"find", "Thing", "named", "b">>
    /\ Head(ReqQuestion.w) = Whitespace
    /\ rc = 0
    /\ Get(Get(stdout[1], "query_ir_v1"), "where")
           = JList(<<AttrEqAtom("?x", "name", "b")>>)
    /\ ToolCallIR(FirstTurnOnSameQuestion) = Get(stdout[1], "query_ir_v1")

\* An augment_proposals request whose proposals document is a map with a
\* list of proposals.
AugmentRequest ==
    /\ LlmTaskRequest
    /\ ReqKind = JStr("augment_proposals")
    /\ isdict(Get(ReqTask, "proposals"))
    /\ islist(Get(Get(ReqTask, "proposals"), "proposals"))

ReqProposals == Get(Get(ReqTask, "proposals"), "proposals").items

\* The map m holds domain equal to "machining", whatever the case.
HasMachiningDomain(m) ==
    /\ isdict(m)
    /\ Get(m, "domain").ty = "str"
    /\ lower_str(Get(m, "domain")) \in {JStr("machining"), JText(<<"machining">>)}

\* A map-shaped proposal whose metadata map or attributes map says machining.
IsMachiningProposal(p) ==
    /\ isdict(p)
    /\ (HasMachiningDomain(Get(p, "metadata")) \/ HasMachiningDomain(Get(p, "attributes")))

\* The updates a response carries, each as <<proposal_id, schema_hint>>.
ResponseUpdates ==
    LET us == Get(stdout[1], "schema_hint_updates").items IN
    [i \in 1..Len(us) |-> <<Get(us[i], "proposal_id"), Get(us[i], "schema_hint")>>]

\* The updates of the claim: one for each machining proposal, in order.
ClaimedUpdates ==
    LET ps == SelectSeq(ReqProposals, IsMachiningProposal) IN
    [i \in 1..Len(ps) |-> <<Get(ps[i], "proposal_id"), JStr("machinist_learning")>>]

\* C14: every map-shaped proposal whose metadata map or attributes map holds
\* domain equal to "machining" (case-insensitive) gets exactly one
\* schema_hint_updates entry with its proposal_id and the schema_hint
\* "machinist_learning", and the other proposals get none.
C14_MachiningUpdates ==
    AugmentRequest =>
        /\ rc = 0
        /\ Len(stdout) = 1
        /\ ResponseUpdates = ClaimedUpdates

\* A world-model plugin process ran.
WorldModelRan == plugin \in {"baseline", "stub", "real", "onnx"} /\ rc # NoExit

EnvelopeKeys ==
    <<"protocol", "trace_id", "generated_at_unix_secs", "proposals", "notes", "error">>

\* v is a response envelope: a map with the six keys, in order.
IsEnvelope(v) ==
    /\ isdict(v)
    /\ [i \in 1..Len(v.kv) |-> v.kv[i][1]] = EnvelopeKeys

\* The request names a protocol that is not the world-model protocol.
WrongProtocolRequest ==
    /\ isdict(request)
    /\ HasKey(request, "protocol")
    /\ Get(request, "protocol") # WorldModelProtocol

\* C15: every run of a world-model plugin writes exactly one envelope; a
\* failed run (an unsupported protocol among the failures) has a string in
\* error, no proposals and a non-zero exit code, and a successful run has a
\* null error and exit code 0.
C15_EnvelopeAlways ==
    WorldModelRan =>
        /\ Len(stdout) = 1
        /\ IsEnvelope(stdout[1])
        /\ \/ rc = 0 /\ Get(stdout[1], "error") = JNull
           \/ /\ rc # 0
              /\ Get(stdout[1], "error").ty = "str"
              /\ Get(Get(stdout[1], "proposals"), "proposals") = JList(<<>>)
        /\ WrongProtocolRequest => rc # 0

\* The atom binds the variable v: as the term of a type or attribute-equality
\* atom, or as the right of an edge atom.
Binds(atom, v) ==
    \/ Get(atom, "kind") \in {JStr("type"), JStr("attr_eq")} /\ Get(atom, "term") = v
    \/ Get(atom, "kind") = JStr("edge") /\ Get(atom, "right") = v

\* The LLM plugin returned a query IR (to_query, or a first turn's tool call).
ReturnedIR == LlmRan /\ rc = 0 /\ ResponseIR # Absent

\* C16: in every query IR the builder returns, where is non-empty and every
\* variable of select is bound by some atom of where.
C16_SelectBound ==
    ReturnedIR =>
        LET select == Get(ResponseIR, "select").items
            where == Get(ResponseIR, "where").items
        IN /\ where # <<>>
           /\ select # <<>>
           /\ \A i \in 1..Len(select) : \E j \in 1..Len(where) : Binds(where[j], select[i])

\* "find Thing": the find branch with a generic type and no name, whose one
\* atom is the Node type atom that binds ?x.
C16_Witness ==
    /\ ToQueryRequest
    /\ split(strip(ReqQuestion)) = <<"find", "Thing">>
    /\ ReturnedIR
    /\ Get(ResponseIR, "select") = JList(<<JStr("?x")>>)
    /\ Get(ResponseIR, "where") = JList(<<TypeAtom("?x", "Node")>>)

\* The tokens of the request's question, and the same in lower case.
ReqTokens == split(strip(ReqQuestion))
ReqLower == [i \in 1..Len(ReqTokens) |-> Lower(ReqTokens[i])]

\* The question starts with "from" and has one more token at least.
LeadingFrom == Len(ReqTokens) >= 2 /\ ReqLower[1] = "from"

\* The question asks to follow a path.
PathTrigger == Contains(ReqLower, "follow") \/ LeadingFrom

\* A request that hands a question string to the builder.
BuilderRequest == (ToQueryRequest \/ FirstTurnRequest) /\ IsText(ReqQuestion)

\* The tokens of the vocabulary that are sequences of decimal digits.
DigitSequences == {"0", "3"}

\* The start node of the claim: the integer after a leading "from" when that
\* token is a digit sequence, 0 otherwise.
ClaimedLeft ==
    IF LeadingFrom /\ ReqTokens[2] \in DigitSequences THEN int(ReqTokens[2]) ELSE JInt(0)

\* The path of the claim: the rel_ tokens joined by "/", or "rel_0/rel_1".
ClaimedPath ==
    LET rels == SelectSeq(ReqTokens, startswith_rel) IN
    IF rels = <<>> THEN "rel_0/rel_1" ELSE Join("/", rels)

\* C17: a question with "follow" in it (whatever the case), or starting with
\* "from" and one more token, gets the path-following IR, before the find
\* branch is tried: select is ["?y"] and where is the one edge atom from the
\* start node (the integer after a leading "from", else 0) along the rel_
\* tokens joined by "/" (rel_0/rel_1 when there are none) to "?y".
C17_PathBranch ==
    (BuilderRequest /\ PathTrigger) =>
        /\ rc = 0
        /\ ResponseIR # Absent
        /\ Get(ResponseIR, "select") = JList(<<JStr("?y")>>)
        /\ Get(ResponseIR, "where") = JList(<<EdgeAtom(ClaimedLeft, ClaimedPath, "?y")>>)

\* The question starts with "find <Type>" and asks for no path.
FindRequest ==
    /\ BuilderRequest
    /\ ~PathTrigger
    /\ Len(ReqTokens) >= 2
    /\ ReqLower[1] = "find"

\* The generic pseudo-types of the claim, in lower case.
PseudoTypes == {"thing", "things", "entity", "entities"}

\* The type atom of the claim: one for <Type> unless it is a pseudo-type.
ClaimedTypeAtoms ==
    IF ReqLower[2] \in PseudoTypes THEN <<>> ELSE <<TypeAtom("?x", ReqTokens[2])>>

\* The name atom of the claim: one for the token after "named" (its first
\* occurrence) when there is such a token.
ClaimedNameAtoms ==
    IF \E i \in 1..(Len(ReqTokens) - 1) : ReqLower[i] = "named"
    THEN LET i == CHOOSE i \in 1..(Len(ReqTokens) - 1) :
                      ReqLower[i] = "named" /\ \A j \in 1..(i - 1) : ReqLower[j] # "named"
         IN <<AttrEqAtom("?x", "name", ReqTokens[i + 1])>>
    ELSE <<>>

ClaimedFindWhere ==
    IF ClaimedTypeAtoms \o ClaimedNameAtoms = <<>> THEN <<TypeAtom("?x", "Node")>>
    ELSE ClaimedTypeAtoms \o ClaimedNameAtoms

\* C18: a question starting with "find <Type>", with no path trigger, gets
\* select ["?x"] and a where that holds a type atom for <Type> exactly when
\* <Type> is no generic pseudo-type, a name atom for t exactly when "named"
\* is followed by a token t, and the single Node type atom when it would
\* hold neither.
C18_FindBranch ==
    FindRequest =>
        /\ rc = 0
        /\ ResponseIR # Absent
        /\ Get(ResponseIR, "select") = JList(<<JStr("?x")>>)
        /\ Get(ResponseIR, "where") = JList(ClaimedFindWhere)

\* "find Node named b": the type atom for Node and the name atom for b.
C18_Witness ==
    /\ FindRequest
    /\ ReqTokens = <<"find", "Node", "named", "b">>
    /\ rc = 0
    /\ Get(ResponseIR, "select") = JList(<<JStr("?x")>>)
    /\ Get(ResponseIR, "where")
           = JList(<<TypeAtom("?x", "Node"), AttrEqAtom("?x", "name", "b")>>)

\* An answer request whose results is a map.
AnswerRequest ==
    /\ LlmTaskRequest
    /\ ReqKind = JStr("answer")
    /\ isdict(Get(ReqTask, "results"))

\* The answer turn of the tool loop on a transcript whose last entry is an
\* axql_run result carrying the results of the request.
AnswerTurnOnSameRows ==
    respond_tool_loop_step(
        JObj(<< <<"kind", JStr("tool_loop_step")>>,
                <<"transcript",
                  JList(<<JObj(<< <<"tool", JStr("axql_run")>>,
                                  <<"result",
                                    JObj(<< <<"results", Get(ReqTask, "results")>> >>)>> >>)>>)>> >>))

\* C19: for every rows value, the answer task and the answer turn of the
\* tool loop on the same rows both fail, or both succeed with the same
\* answer text.
C19_AnswerTurnMirrorsAnswer ==
    AnswerRequest =>
        LET step == AnswerTurnOnSameRows IN
        /\ (rc = 0) <=> (step.rc = 0)
        /\ rc = 0 =>
             /\ Len(stdout) = 1
             /\ Get(stdout[1], "answer")
                    = Get(Get(step.stdout[1], "final_answer"), "answer")

====
